---- MODULE Spec2Model ----
(***************************************************************************)
(* homework_bot (src/homework.py): a single-threaded poller that asks the  *)
(* homework-review API for status changes since a cursor, translates each  *)
(* record into a sentence, sends it to one Telegram chat and sleeps.       *)
(*                                                                         *)
(* The module has ASCII strings only, so the program's Russian texts are   *)
(* transliterated letter by letter; each definition quotes the original.   *)
(* Python values are modelled by records of one shape per kind, so that    *)
(* any two values of a kind can be compared.                               *)
(***************************************************************************)
EXTENDS Integers, Sequences, FiniteSets, TLC

VARIABLES
    env,                  \* the three credentials read at import (lines 19-21)
    pc,                   \* position of main (lines 142-168)
    exitError,            \* text of the exception that ended main, "" if none
    botCreated,           \* telegram.Bot(...) was constructed (line 145)
    timestamp,            \* main's local cursor (line 146)
    LAST_ERROR_MESSAGE,   \* the module global (line 27)
    net,                  \* what the network did for this iteration's GET
    fromDate,             \* the from_date parameter of the latest GET
    response,             \* main's local response (line 150)
    homeworks,            \* main's local homeworks (line 152)
    idx,                  \* position of the for loop (line 154), 1-based
    error,                \* the exception caught at line 164
    log,                  \* send_message calls of this iteration, in order
    prevFailure,          \* failure report of the previous iteration
    lastFailureDelivered, \* text of the latest failure message the chat got
    fn,                   \* the call under test of the function harness
    startTime,            \* the wall clock when the process started
    gets,                 \* GETs issued since the last sleep returned
    slept,                \* seconds slept since the last GET
    schedule,             \* server: the status change of each tick, if any
    clock,                \* server: its time, in ticks after TIME_POINT
    deliveredBefore,      \* changes the chat got in earlier iterations
    deliveredOk           \* changes the chat got in iterations that completed

vars == <<env, pc, exitError, botCreated, timestamp, LAST_ERROR_MESSAGE, net,
          fromDate, response, homeworks, idx, error, log, prevFailure,
          lastFailureDelivered, fn, startTime, gets, slept, schedule, clock,
          deliveredBefore, deliveredOk>>

\* the state of the API server and of the chat's history; the loop never
\* reads or writes them
serverVars == <<schedule, clock, deliveredBefore, deliveredOk>>

-----------------------------------------------------------------------------
(* Bounds of the model *)

\* longest homeworks list a response carries
MaxHw == 2
\* number of distinct current_date values the server reports
MaxDates == 2
\* number of ticks of the server's clock, one status change at most in each
MaxTicks == 3

-----------------------------------------------------------------------------
(* Module constants, lines 19-34 *)

RETRY_PERIOD == 600
TIME_POINT == 1705755600
HTTP_OK == 200

\* Python's None where a string is expected; '{}'.format(None) is 'None'
PyNoneStr == "None"

TokenNames == <<"PRACTICUM_TOKEN", "TELEGRAM_TOKEN", "TELEGRAM_CHAT_ID">>

\* HOMEWORK_VERDICTS, lines 30-34:
\*   'approved':  'Работа проверена: ревьюеру всё понравилось. Ура!'
\*   'reviewing': 'Работа взята на проверку ревьюером.'
\*   'rejected':  'Работа проверена: у ревьюера есть замечания.'
VerdictKeys == {"approved", "reviewing", "rejected"}

HOMEWORK_VERDICTS(status) ==
    CASE status = "approved" -> "Rabota proverena: revyueru vsyo ponravilos. Ura!"
      [] status = "reviewing" -> "Rabota vzyata na proverku revyuerom."
      [] status = "rejected" -> "Rabota proverena: u revyuera est zamechaniya."

-----------------------------------------------------------------------------
(* Python values *)

\* a key that a mapping does not have
Absent == "<absent>"

\* no exception
NoExc == [type |-> "None", msg |-> ""]

Exc(type, msg) == [type |-> type, msg |-> msg]

\* str(exception): the message, except that str(KeyError(m)) is repr(m),
\* the message in single quotes (none of the messages holds one)
ExcStr(e) == IF e.type = "KeyError" THEN "'" \o e.msg \o "'" ELSE e.msg

Returned(v) == [raised |-> FALSE, exc |-> NoExc, value |-> v]
Raised(e, v) == [raised |-> TRUE, exc |-> e, value |-> v]

\* ', '.join(seq)
RECURSIVE Join(_)
Join(seq) ==
    IF Len(seq) = 0 THEN ""
    ELSE IF Len(seq) = 1 THEN seq[1]
    ELSE seq[1] \o ", " \o Join(Tail(seq))

\* A JSON body as Python sees it.  kind "dict": keys is the set of its keys
\* among homeworks, current_date and one other key; hwIsList and hw describe
\* the value under homeworks, date the value under current_date.  kind
\* "nondict": a list, number, string or null at top level, of which only
\* bool(value) matters; kind "None": Python's None.
Body(kind, truthy, keys, hwIsList, hw, date) ==
    [kind |-> kind, truthy |-> truthy, keys |-> keys,
     hwIsList |-> hwIsList, hw |-> hw, date |-> date]

PyNone == Body("None", FALSE, {}, FALSE, <<>>, 0)

\* bool(value): an empty dict, an empty list, 0, '' and None are false (the
\* truthy field is read for a non-dict only)
Truthy(v) == IF v.kind = "dict" THEN v.keys # {} ELSE v.truthy

-----------------------------------------------------------------------------
(* check_tokens, lines 37-55 *)

\* missing_tokens after lines 39-45, in the order of the three tests
RECURSIVE MissingFrom(_, _)
MissingFrom(e, i) ==
    IF i > Len(TokenNames) THEN <<>>
    ELSE (IF e[TokenNames[i]] THEN <<>> ELSE <<TokenNames[i]>>)
         \o MissingFrom(e, i + 1)

\* check_tokens that stops looking at the first missing credential
check_tokens_FirstMissingOnly(e) ==
    LET missing_tokens == MissingFrom(e, 1) IN
    IF Len(missing_tokens) > 0
    THEN Raised(Exc("ValueError",
                    "Otsutstvuyut peremennye okruzheniya: "
                    \o missing_tokens[1]), FALSE)
    ELSE Returned(TRUE)

\* 'Отсутствуют переменные окружения: {}'
check_tokens(e) ==
    LET missing_tokens == MissingFrom(e, 1) IN
    IF Len(missing_tokens) > 0
    THEN Raised(Exc("ValueError",
                    "Otsutstvuyut peremennye okruzheniya: "
                    \o Join(missing_tokens)), FALSE)
    ELSE Returned(TRUE)

-----------------------------------------------------------------------------
(* send_message, lines 58-75.  botOk: bot.send_message returns rather than  *)
(* raises.  The result says whether bot.send_message was called, whether   *)
(* the chat got the text, and the value of LAST_ERROR_MESSAGE afterwards.  *)

\* send_message whose duplicate test is live for every message: a text equal
\* to the last one sent is dropped, and a sent text is remembered
send_message_DropsRepeats(message, last, botOk) ==
    IF message = last
    THEN [attempted |-> FALSE, delivered |-> FALSE, last |-> last]
    ELSE IF botOk
         THEN [attempted |-> TRUE, delivered |-> TRUE, last |-> message]
         ELSE [attempted |-> TRUE, delivered |-> FALSE, last |-> last]

send_message(message, last, botOk) ==
    LET error0 == FALSE IN              \* line 61: error = False
    IF error0 /\ message = last         \* line 63
    THEN [attempted |-> FALSE, delivered |-> FALSE, last |-> last]
    ELSE IF botOk                       \* line 69
         THEN [attempted |-> TRUE, delivered |-> TRUE,
               last |-> IF error0 THEN message ELSE last]   \* lines 71-72
         ELSE [attempted |-> TRUE, delivered |-> FALSE, last |-> last]

-----------------------------------------------------------------------------
(* get_api_answer, lines 78-104.  n is what the network does: the GET       *)
(* raises a RequestException (kind "conn_error"), or answers with a status *)
(* code and a JSON body.  requests raises HTTPError only from              *)
(* raise_for_status, which is never called, so the handler of lines 98-102 *)
(* is not entered.                                                         *)

\* get_api_answer with the lower ends of the two ranges excluded
get_api_answer_OpenRanges(n) ==
    IF n.kind = "conn_error"
    THEN Returned(PyNone)
    ELSE IF n.code # HTTP_OK
         THEN IF 400 < n.code /\ n.code < 500
              THEN Raised(Exc("ValueError", "Oshibka na storone klienta."), PyNone)
              ELSE IF 500 < n.code /\ n.code < 600
                   THEN Raised(Exc("ValueError", "Oshibka servera."), PyNone)
                   ELSE Raised(Exc("ValueError", "Neizvestnyy otvet."), PyNone)
         ELSE Returned(n.body)

\* 'Ошибка на стороне клиента.' / 'Ошибка сервера.' / 'Неизвестный ответ.'
get_api_answer(n) ==
    IF n.kind = "conn_error"
    THEN Returned(PyNone)               \* lines 103-104: logged, falls off
    ELSE IF n.code # HTTP_OK
         THEN IF 400 <= n.code /\ n.code < 500
              THEN Raised(Exc("ValueError", "Oshibka na storone klienta."), PyNone)
              ELSE IF 500 <= n.code /\ n.code < 600
                   THEN Raised(Exc("ValueError", "Oshibka servera."), PyNone)
                   ELSE Raised(Exc("ValueError", "Neizvestnyy otvet."), PyNone)
         ELSE Returned(n.body)          \* line 97

-----------------------------------------------------------------------------
(* check_response, lines 107-118 *)

\* 'Ответ API не является словарем.'
\* 'Ответ API не содержит ключ "homeworks".'
\* 'Данные под ключом "homeworks" не являются списком.'
check_response(r) ==
    IF r.kind # "dict"
    THEN Raised(Exc("TypeError", "Otvet API ne yavlyaetsya slovarem."), <<>>)
    ELSE IF "homeworks" \notin r.keys
         THEN Raised(Exc("KeyError",
                         "Otvet API ne soderzhit klyuch \"homeworks\"."), <<>>)
         ELSE IF ~r.hwIsList
              THEN Raised(Exc("TypeError",
                   "Dannye pod klyuchom \"homeworks\" ne yavlyayutsya spiskom."),
                   <<>>)
              ELSE Returned(r.hw)

-----------------------------------------------------------------------------
(* parse_status, lines 121-139.  A homework record has the two fields the  *)
(* code reads; a field is Absent when the record lacks the key.            *)

\* homework.get('status'): None when the key is missing
GetStatus(homework) ==
    IF homework.status = Absent THEN PyNoneStr ELSE homework.status

\* parse_status that looks at the status before it looks for the name
parse_status_StatusFirst(homework) ==
    LET status == GetStatus(homework) IN
    IF status \notin VerdictKeys
    THEN Raised(Exc("ValueError",
                    "Neizvestnyy status domashney raboty: " \o status), "")
    ELSE IF homework.homework_name = Absent
         THEN Raised(Exc("KeyError",
                         "V otvete API otsutstvuet klyuch \"homework_name\"."), "")
         ELSE Returned("Izmenilsya status proverki raboty \""
                       \o homework.homework_name \o "\". "
                       \o HOMEWORK_VERDICTS(status))

\* 'В ответе API отсутствует ключ "homework_name".'
\* 'Неизвестный статус домашней работы: {}'
\* 'Изменился статус проверки работы "{}". {}'
parse_status(homework) ==
    IF homework.homework_name = Absent
    THEN Raised(Exc("KeyError",
                    "V otvete API otsutstvuet klyuch \"homework_name\"."), "")
    ELSE LET homework_name == homework.homework_name
             status == GetStatus(homework)
         IN  IF status \notin VerdictKeys
             THEN Raised(Exc("ValueError",
                             "Neizvestnyy status domashney raboty: " \o status), "")
             ELSE Returned("Izmenilsya status proverki raboty \""
                           \o homework_name \o "\". "
                           \o HOMEWORK_VERDICTS(status))

-----------------------------------------------------------------------------
(* Inputs of the loop *)

Record(name, status) == [homework_name |-> name, status |-> status]

\* the records the loop is fed: a good one, one without a name, one whose
\* status is missing
SampleRecords ==
    { Record("hw1", "approved"), Record(Absent, "rejected"),
      Record("hw2", Absent) }

RECURSIVE SeqsUpTo(_, _)
SeqsUpTo(S, n) ==
    IF n = 0 THEN {<<>>}
    ELSE LET shorter == SeqsUpTo(S, n - 1) IN
         shorter \cup {Append(s, x) : s \in {t \in shorter : Len(t) = n - 1}, x \in S}

\* the server's clock runs ahead of the cursor in steps of the poll period
Dates == {TIME_POINT + k * RETRY_PERIOD : k \in 1..MaxDates}

\* what a dict holds under current_date: nothing, or one of the dates
DateOptions ==
    {[has |-> FALSE, date |-> 0]} \cup {[has |-> TRUE, date |-> d] : d \in Dates}

\* what a dict holds under homeworks: a list of records, or something else
HwOptions ==
    {[isList |-> FALSE, hw |-> <<>>]}
    \cup {[isList |-> TRUE, hw |-> s] : s \in SeqsUpTo(SampleRecords, MaxHw)}

DateKey(o) == IF o.has THEN {"current_date"} ELSE {}

Bodies ==
    {Body("nondict", t, {}, FALSE, <<>>, 0) : t \in BOOLEAN}
    \cup {Body("dict", FALSE, {"no_homeworks_key"}, FALSE, <<>>, 0)}
    \cup {Body("dict", FALSE, DateKey(o), FALSE, <<>>, o.date) : o \in DateOptions}
    \cup {Body("dict", FALSE, {"homeworks"} \cup DateKey(o), h.isList, h.hw, o.date) :
            o \in DateOptions, h \in HwOptions}

StatusCodes == {100, 200, 204, 301, 399, 400, 404, 499, 500, 503, 599, 600}

NoNet == [kind |-> "none", code |-> 0, body |-> PyNone]

NetOutcomes ==
    {[kind |-> "conn_error", code |-> 0, body |-> PyNone]}
    \cup {[kind |-> "http", code |-> c, body |-> PyNone] : c \in StatusCodes \ {HTTP_OK}}
    \cup {[kind |-> "http", code |-> HTTP_OK, body |-> b] : b \in Bodies}

-----------------------------------------------------------------------------
(* main, lines 142-168 *)

\* a start of the process a day (144 poll periods) after TIME_POINT
LaterStart == TIME_POINT + 144 * RETRY_PERIOD

\* when the process may start: at the very second TIME_POINT names, a day
\* later, or a poll period after that
StartTimes == {TIME_POINT, LaterStart, LaterStart + RETRY_PERIOD}

NoFailure == [text |-> "", attempted |-> FALSE, delivered |-> FALSE]

\* the function harness at rest: no call made
Idle == [called |-> FALSE, arg |-> Record(Absent, Absent), out |-> Returned("")]

\* the program when main is called, the process having started at a time of T
ProgramInit(T) ==
    /\ env \in [{TokenNames[i] : i \in 1..Len(TokenNames)} -> BOOLEAN]
    /\ pc = "start"
    /\ exitError = ""
    /\ botCreated = FALSE
    /\ timestamp = 0
    /\ LAST_ERROR_MESSAGE = PyNoneStr
    /\ net = NoNet
    /\ fromDate = 0
    /\ response = PyNone
    /\ homeworks = <<>>
    /\ idx = 1
    /\ error = NoExc
    /\ log = <<>>
    /\ prevFailure = NoFailure
    /\ lastFailureDelivered = ""
    /\ fn = Idle
    /\ startTime \in T
    /\ gets = 0
    /\ slept = 0

\* no server is modelled: the network is free to answer anything
NoServer ==
    /\ schedule = <<>>
    /\ clock = 0
    /\ deliveredBefore = {}
    /\ deliveredOk = {}

InitAt(T) == ProgramInit(T) /\ NoServer

\* the loop never reads the clock: one start time stands for all of them
Init == InitAt({LaterStart})

\* Start with the first cursor read from the clock, int(time.time())
Start_ReadsClock ==
    /\ pc = "start"
    /\ LET r == check_tokens(env) IN
       IF r.raised
       THEN /\ pc' = "exited"
            /\ exitError' = ExcStr(r.exc)
            /\ UNCHANGED <<botCreated, timestamp>>
       ELSE /\ pc' = "poll"
            /\ botCreated' = TRUE
            /\ timestamp' = startTime
            /\ UNCHANGED exitError
    /\ UNCHANGED <<env, startTime, gets, slept, serverVars,
                   LAST_ERROR_MESSAGE, net, fromDate, response, homeworks,
                   idx, error, log, prevFailure, lastFailureDelivered, fn>>

\* lines 144-146: check_tokens(), the bot, the first cursor
Start ==
    /\ pc = "start"
    /\ LET r == check_tokens(env) IN
       IF r.raised
       THEN /\ pc' = "exited"
            /\ exitError' = ExcStr(r.exc)
            /\ UNCHANGED <<botCreated, timestamp>>
       ELSE /\ pc' = "poll"
            /\ botCreated' = TRUE
            /\ timestamp' = TIME_POINT
            /\ UNCHANGED exitError
    /\ UNCHANGED <<env, startTime, gets, slept, serverVars,
                   LAST_ERROR_MESSAGE, net, fromDate, response, homeworks,
                   idx, error, log, prevFailure, lastFailureDelivered, fn>>

\* line 150 with the network doing n: response = get_api_answer(timestamp);
\* line 151: if response
PollWith(n) ==
    LET r == get_api_answer(n) IN
    /\ net' = n
    /\ fromDate' = timestamp
    /\ gets' = gets + 1
    /\ slept' = 0
    /\ IF r.raised
       THEN /\ error' = r.exc
            /\ response' = PyNone
            /\ pc' = "except"
       ELSE /\ error' = NoExc
            /\ response' = r.value
            /\ pc' = IF Truthy(r.value) THEN "check_response" ELSE "sleep"
    /\ UNCHANGED <<env, startTime, exitError, botCreated, timestamp,
                   LAST_ERROR_MESSAGE, homeworks, idx, log, prevFailure,
                   lastFailureDelivered, fn>>

\* lines 150-151, the network free to do anything
Poll ==
    /\ pc = "poll"
    /\ \E n \in NetOutcomes : PollWith(n)
    /\ UNCHANGED serverVars

\* CheckResponse with the cursor moved as soon as the response is validated,
\* ahead of the for loop
CheckResponse_MovesCursor ==
    /\ pc = "check_response"
    /\ LET r == check_response(response) IN
       IF r.raised
       THEN /\ error' = r.exc
            /\ pc' = "except"
            /\ UNCHANGED <<homeworks, idx, timestamp>>
       ELSE /\ homeworks' = r.value
            /\ idx' = 1
            /\ pc' = IF Len(r.value) > 0 THEN "records" ELSE "update"
            /\ timestamp' = IF "current_date" \in response.keys
                            THEN response.date ELSE timestamp
            /\ UNCHANGED error
    /\ UNCHANGED <<env, startTime, gets, slept, serverVars, exitError,
                   botCreated, LAST_ERROR_MESSAGE, net, fromDate, response,
                   log, prevFailure, lastFailureDelivered, fn>>

\* line 152: homeworks = check_response(response); line 153: if homeworks
CheckResponse ==
    /\ pc = "check_response"
    /\ LET r == check_response(response) IN
       IF r.raised
       THEN /\ error' = r.exc
            /\ pc' = "except"
            /\ UNCHANGED <<homeworks, idx>>
       ELSE /\ homeworks' = r.value
            /\ idx' = 1
            /\ pc' = IF Len(r.value) > 0 THEN "records" ELSE "update"
            /\ UNCHANGED error
    /\ UNCHANGED <<env, startTime, gets, slept, serverVars, exitError,
                   botCreated, timestamp, LAST_ERROR_MESSAGE, net, fromDate,
                   response, log, prevFailure, lastFailureDelivered, fn>>

\* one call of send_message from main: what it did, and of which kind the
\* message was (a status change, line 157; a failure report, line 166)
Sent(kind, message, s) ==
    [kind |-> kind, text |-> message, attempted |-> s.attempted,
     delivered |-> s.delivered]

\* ProcessHomework with the translation error caught per record: the bad
\* record is skipped and the for loop goes on
ProcessHomework_SkipsBadRecord ==
    /\ pc = "records"
    /\ LET r == parse_status(homeworks[idx]) IN
       /\ IF ~r.raised /\ r.value # ""
          THEN \E botOk \in BOOLEAN :
                 LET s == send_message(r.value, LAST_ERROR_MESSAGE, botOk) IN
                 /\ log' = Append(log, Sent("status", r.value, s))
                 /\ LAST_ERROR_MESSAGE' = s.last
          ELSE UNCHANGED <<log, LAST_ERROR_MESSAGE>>
       /\ idx' = idx + 1
       /\ pc' = IF idx < Len(homeworks) THEN "records" ELSE "update"
       /\ UNCHANGED error
    /\ UNCHANGED <<env, startTime, gets, slept, serverVars, exitError,
                   botCreated, timestamp, net, fromDate, response, homeworks,
                   prevFailure, lastFailureDelivered, fn>>

\* ProcessHomework in which an error of the delivery leaves send_message and
\* is caught by main's except branch
ProcessHomework_DeliveryErrorPropagates ==
    /\ pc = "records"
    /\ LET r == parse_status(homeworks[idx]) IN
       IF r.raised
       THEN /\ error' = r.exc
            /\ pc' = "except"
            /\ UNCHANGED <<idx, log, LAST_ERROR_MESSAGE>>
       ELSE \E botOk \in BOOLEAN :
              LET s == send_message(r.value, LAST_ERROR_MESSAGE, botOk) IN
              /\ log' = Append(log, Sent("status", r.value, s))
              /\ LAST_ERROR_MESSAGE' = s.last
              /\ IF botOk
                 THEN /\ idx' = idx + 1
                      /\ pc' = IF idx < Len(homeworks) THEN "records" ELSE "update"
                      /\ UNCHANGED error
                 ELSE /\ error' = Exc("TelegramError", "Chat not found")
                      /\ pc' = "except"
                      /\ UNCHANGED idx
    /\ UNCHANGED <<env, startTime, gets, slept, serverVars, exitError,
                   botCreated, timestamp, net, fromDate, response, homeworks,
                   prevFailure, lastFailureDelivered, fn>>

\* lines 154-157: one pass of the for loop
ProcessHomework ==
    /\ pc = "records"
    /\ LET r == parse_status(homeworks[idx]) IN
       IF r.raised
       THEN /\ error' = r.exc
            /\ pc' = "except"
            /\ UNCHANGED <<idx, log, LAST_ERROR_MESSAGE>>
       ELSE /\ IF r.value # ""                           \* line 156
               THEN \E botOk \in BOOLEAN :
                      LET s == send_message(r.value, LAST_ERROR_MESSAGE, botOk) IN
                      /\ log' = Append(log, Sent("status", r.value, s))
                      /\ LAST_ERROR_MESSAGE' = s.last
               ELSE UNCHANGED <<log, LAST_ERROR_MESSAGE>>
            /\ idx' = idx + 1
            /\ pc' = IF idx < Len(homeworks) THEN "records" ELSE "update"
            /\ UNCHANGED error
    /\ UNCHANGED <<env, startTime, gets, slept, serverVars, exitError,
                   botCreated, timestamp, net, fromDate, response, homeworks,
                   prevFailure, lastFailureDelivered, fn>>

\* the cursor never moves
NewTimestamp_KeepsCursor(r, ts) == ts

\* line 161: response.get('current_date', timestamp)
NewTimestamp(r, ts) == IF "current_date" \in r.keys THEN r.date ELSE ts

\* lines 160-163: the cursor moves, then the sleep of the try block starts
UpdateTimestamp ==
    /\ pc = "update"
    /\ timestamp' = NewTimestamp(response, timestamp)
    /\ pc' = "sleep"
    /\ UNCHANGED <<env, startTime, gets, slept, serverVars, exitError,
                   botCreated, LAST_ERROR_MESSAGE, net, fromDate, response,
                   homeworks, idx, error, log, prevFailure,
                   lastFailureDelivered, fn>>

\* the failure report of the iteration that is ending, if it made one
FailureOf(l) ==
    IF Len(l) > 0 /\ l[Len(l)].kind = "failure"
    THEN [text |-> l[Len(l)].text, attempted |-> l[Len(l)].attempted,
          delivered |-> l[Len(l)].delivered]
    ELSE NoFailure

\* line 165: f'Сбой в работе программы: {error}'
FailureMessage(e) == "Sboy v rabote programmy: " \o ExcStr(e)

\* ReportFailure in which an error of the delivery leaves send_message and,
\* raised inside the except branch, ends main
ReportFailure_DeliveryErrorEscapes ==
    /\ pc = "except"
    /\ \E botOk \in BOOLEAN :
         LET message == FailureMessage(error)
             s == send_message(message, LAST_ERROR_MESSAGE, botOk)
         IN  /\ log' = Append(log, Sent("failure", message, s))
             /\ LAST_ERROR_MESSAGE' = s.last
             /\ lastFailureDelivered' =
                    IF s.delivered THEN message ELSE lastFailureDelivered
             /\ pc' = IF botOk THEN "sleep" ELSE "exited"
    /\ UNCHANGED <<env, startTime, gets, slept, serverVars, exitError,
                   botCreated, timestamp, net, fromDate, response, homeworks,
                   idx, error, prevFailure, fn>>

\* ReportFailure without the sleep of line 167: the while loop starts over
\* at once
ReportFailure_NoSleep ==
    /\ pc = "except"
    /\ \E botOk \in BOOLEAN :
         LET message == FailureMessage(error)
             s == send_message(message, LAST_ERROR_MESSAGE, botOk)
         IN  /\ prevFailure' = FailureOf(Append(log, Sent("failure", message, s)))
             /\ LAST_ERROR_MESSAGE' = s.last
             /\ lastFailureDelivered' =
                    IF s.delivered THEN message ELSE lastFailureDelivered
    /\ pc' = "poll"
    /\ net' = NoNet
    /\ response' = PyNone
    /\ homeworks' = <<>>
    /\ idx' = 1
    /\ error' = NoExc
    /\ log' = <<>>
    /\ UNCHANGED <<env, startTime, gets, slept, serverVars, exitError,
                   botCreated, timestamp, fromDate, fn>>

\* lines 164-167: the except branch, up to its sleep
ReportFailure ==
    /\ pc = "except"
    /\ \E botOk \in BOOLEAN :
         LET message == FailureMessage(error)
             s == send_message(message, LAST_ERROR_MESSAGE, botOk)
         IN  /\ log' = Append(log, Sent("failure", message, s))
             /\ LAST_ERROR_MESSAGE' = s.last
             /\ lastFailureDelivered' =
                    IF s.delivered THEN message ELSE lastFailureDelivered
    /\ pc' = "sleep"
    /\ UNCHANGED <<env, startTime, gets, slept, serverVars, exitError,
                   botCreated, timestamp, net, fromDate, response, homeworks,
                   idx, error, prevFailure, fn>>

\* time.sleep(RETRY_PERIOD) returns (line 163 or 167) and the while loop
\* starts over (line 147); the locals of the iteration are dead
SleepReturns ==
    /\ pc = "sleep"
    /\ pc' = "poll"
    /\ slept' = slept + RETRY_PERIOD
    /\ gets' = 0
    /\ prevFailure' = FailureOf(log)
    /\ net' = NoNet
    /\ response' = PyNone
    /\ homeworks' = <<>>
    /\ idx' = 1
    /\ error' = NoExc
    /\ log' = <<>>
    /\ UNCHANGED <<env, startTime, exitError, botCreated, timestamp,
                   LAST_ERROR_MESSAGE, fromDate, lastFailureDelivered, fn>>

Sleep == SleepReturns /\ UNCHANGED serverVars

Next ==
    \/ Start
    \/ Poll
    \/ CheckResponse
    \/ ProcessHomework
    \/ UpdateTimestamp
    \/ ReportFailure
    \/ Sleep

Spec == Init /\ [][Next]_vars

\* the same program started at any of the start times
StartupInit == InitAt(StartTimes)

StartupSpec == StartupInit /\ [][Next]_vars

\* The loop is one thread: whichever statement is next runs, provided the
\* blocking calls (the GET, the send, the sleep) return or raise.
FairSpec == Spec /\ WF_vars(Next)

-----------------------------------------------------------------------------
(* The loop against an API server that answers a GET with exactly the      *)
(* status changes since from_date and always with current_date.  The       *)
(* server's clock ticks once per poll period; change k, if there is one,   *)
(* happens at the start of tick k.                                         *)

NoChange == [has |-> FALSE, rec |-> Record(Absent, Absent)]

Change(r) == [has |-> TRUE, rec |-> r]

Schedules == [1..MaxTicks -> {NoChange} \cup {Change(r) : r \in SampleRecords}]

\* the server's time after c ticks
TickTime(c) == TIME_POINT + c * RETRY_PERIOD

\* the changes k..MaxTicks that happened at or after from and before now,
\* oldest first
RECURSIVE ChangedSince(_, _, _, _)
ChangedSince(sched, from, now, k) ==
    IF k > Len(sched) THEN <<>>
    ELSE (IF sched[k].has /\ from <= TickTime(k - 1) /\ TickTime(k - 1) < now
          THEN <<k>> ELSE <<>>)
         \o ChangedSince(sched, from, now, k + 1)

\* the answer to GET ?from_date=from when the server's clock shows c ticks
ServerBody(sched, from, c) ==
    LET ids == ChangedSince(sched, from, TickTime(c), 1) IN
    Body("dict", FALSE, {"homeworks", "current_date"}, TRUE,
         [i \in 1..Len(ids) |-> sched[ids[i]].rec], TickTime(c))

\* the server answers, or is down for this GET, or cannot be reached
ServerOutcomes(sched, from, c) ==
    {[kind |-> "http", code |-> HTTP_OK, body |-> ServerBody(sched, from, c)],
     [kind |-> "http", code |-> 503, body |-> PyNone],
     [kind |-> "conn_error", code |-> 0, body |-> PyNone]}

\* the changes whose message the chat got in the iteration that is ending
DeliveredNow ==
    LET ids == ChangedSince(schedule, fromDate, TickTime(clock), 1) IN
    {ids[i] : i \in {j \in 1..Len(log) :
                       log[j].kind = "status" /\ log[j].delivered}}

ServerInit ==
    /\ ProgramInit({LaterStart})
    /\ \A t \in DOMAIN env : env[t]
    /\ schedule \in Schedules
    /\ clock = 1
    /\ deliveredBefore = {}
    /\ deliveredOk = {}

ServerPoll ==
    /\ pc = "poll"
    /\ \E n \in ServerOutcomes(schedule, timestamp, clock) : PollWith(n)
    /\ UNCHANGED serverVars

\* the sleep returns one tick later (the clock stops at MaxTicks)
ServerSleep ==
    /\ SleepReturns
    /\ clock' = IF clock < MaxTicks THEN clock + 1 ELSE clock
    /\ deliveredBefore' = deliveredBefore \cup DeliveredNow
    /\ deliveredOk' = IF error = NoExc THEN deliveredOk \cup DeliveredNow
                      ELSE deliveredOk
    /\ UNCHANGED schedule

ServerNext ==
    \/ Start
    \/ ServerPoll
    \/ CheckResponse
    \/ ProcessHomework
    \/ UpdateTimestamp
    \/ ReportFailure
    \/ ServerSleep

ServerSpec == ServerInit /\ [][ServerNext]_vars

-----------------------------------------------------------------------------
(* Function harness: parse_status applied to one record at a time *)

HarnessNames == {"hw1", "hw2", "", "Homework 3", "approved", "None", "x, y"}

HarnessStatuses == VerdictKeys \cup {"unknown", "", "APPROVED", PyNoneStr}

HarnessRecords ==
    {Record(n, st) : n \in HarnessNames \cup {Absent},
                     st \in HarnessStatuses \cup {Absent}}

FnInit ==
    /\ env = [t \in {TokenNames[i] : i \in 1..Len(TokenNames)} |-> TRUE]
    /\ pc = "harness"
    /\ exitError = ""
    /\ botCreated = FALSE
    /\ timestamp = 0
    /\ LAST_ERROR_MESSAGE = PyNoneStr
    /\ net = NoNet
    /\ fromDate = 0
    /\ response = PyNone
    /\ homeworks = <<>>
    /\ idx = 1
    /\ error = NoExc
    /\ log = <<>>
    /\ prevFailure = NoFailure
    /\ lastFailureDelivered = ""
    /\ fn \in {[called |-> FALSE, arg |-> hw, out |-> Returned("")] :
                 hw \in HarnessRecords}
    /\ startTime = 0
    /\ gets = 0
    /\ slept = 0
    /\ schedule = <<>>
    /\ clock = 0
    /\ deliveredBefore = {}
    /\ deliveredOk = {}

CallParseStatus ==
    /\ pc = "harness"
    /\ ~fn.called
    /\ fn' = [called |-> TRUE, arg |-> fn.arg, out |-> parse_status(fn.arg)]
    /\ UNCHANGED <<env, startTime, gets, slept, serverVars, pc, exitError,
                   botCreated, timestamp, LAST_ERROR_MESSAGE, net, fromDate,
                   response, homeworks, idx, error, log, prevFailure,
                   lastFailureDelivered>>

FnNext == CallParseStatus

FnSpec == FnInit /\ [][FnNext]_vars

-----------------------------------------------------------------------------
(* Properties *)

\* the iteration that is ending raised nothing and its GET got a body
IterationSucceeded ==
    pc = "sleep" /\ net.kind = "http" /\ net.code = 200 /\ error = NoExc

\* the iteration that is ending failed: the GET raised, or answered with a
\* status other than 200, or validation or translation raised
IterationFailed ==
    pc = "sleep" /\ (net.kind = "conn_error" \/ error # NoExc)

\* the step that issues the GET
PollStep == pc = "poll" /\ pc' # "poll"

\* C1: when two consecutive iterations both end in the except branch with
\* the same failure text and the chat got the first, bot.send_message is not
\* called for the second.
C1_Original ==
    (/\ pc = "sleep"
     /\ FailureOf(log).text # ""
     /\ prevFailure.delivered
     /\ prevFailure.text = FailureOf(log).text)
    => ~FailureOf(log).attempted

\* C2: after a failure text m was delivered to the chat, and until the next
\* failure delivery, LAST_ERROR_MESSAGE = m.
C2_Original ==
    lastFailureDelivered # "" => LAST_ERROR_MESSAGE = lastFailureDelivered

\* C3: an iteration that raised nothing leaves the cursor at the response's
\* current_date when the response has that key and where it was otherwise,
\* the cursor rests during the sleep, and the next GET carries it as from_date.
C3_CursorFollowsCurrentDate ==
    /\ [](IterationSucceeded =>
            timestamp = IF "current_date" \in response.keys
                        THEN response.date ELSE fromDate)
    /\ [][(pc = "sleep" => timestamp' = timestamp)
          /\ (PollStep => fromDate' = timestamp /\ timestamp' = timestamp)]_vars

C3_Witness ==
    /\ IterationSucceeded
    /\ "current_date" \in response.keys
    /\ timestamp = response.date
    /\ timestamp # fromDate
    /\ Len(log) = 2

\* C4: an iteration that failed at any step leaves the cursor where it was,
\* whatever current_date the response carried, and the next GET carries the
\* same from_date as the failed one.
C4_FailureKeepsCursor ==
    /\ [](IterationFailed => timestamp = fromDate)
    /\ [][(pc = "sleep" => timestamp' = timestamp)
          /\ (PollStep => fromDate' = timestamp /\ timestamp' = timestamp)]_vars

C4_Witness ==
    /\ IterationFailed
    /\ "current_date" \in response.keys
    /\ response.date # timestamp
    /\ Len(log) = 2
    /\ log[1].kind = "status"

\* C5: every error of an iteration, a connection-level failure of the GET
\* included, is passed to send_message as a failure message before the sleep.
C5_Original == IterationFailed => FailureOf(log) # NoFailure

\* C6: once the loop has started nothing ends it: whatever polling,
\* validation, translation and delivery do, the loop reaches its sleep and
\* then its next poll, again and again.
C6_LoopRunsForever ==
    /\ [](botCreated => pc # "exited")
    /\ [](botCreated => <>(pc = "sleep"))
    /\ [](botCreated => <>(pc = "poll"))

C6_Witness ==
    /\ pc = "sleep"
    /\ error # NoExc
    /\ Len(log) = 1
    /\ ~log[1].delivered

\* the body is not a mapping, or has no homeworks key, or holds something
\* other than a list under it
BadShape(b) == b.kind # "dict" \/ "homeworks" \notin b.keys \/ ~b.hwIsList

\* C7: every polled body of a bad shape makes the iteration a failure: no
\* status-change message is sent and a failure message is reported.
C7_Original ==
    (pc = "sleep" /\ net.kind = "http" /\ net.code = 200 /\ BadShape(net.body))
    => /\ FailureOf(log) # NoFailure
       /\ \A i \in 1..Len(log) : log[i].kind # "status"

MissingCredentials == {t \in DOMAIN env : ~env[t]}

\* the text of the startup error, written out for each set of missing
\* credentials
C8_ExpectedText(m) ==
    "Otsutstvuyut peremennye okruzheniya: " \o
    CASE m = {"PRACTICUM_TOKEN"} -> "PRACTICUM_TOKEN"
      [] m = {"TELEGRAM_TOKEN"} -> "TELEGRAM_TOKEN"
      [] m = {"TELEGRAM_CHAT_ID"} -> "TELEGRAM_CHAT_ID"
      [] m = {"PRACTICUM_TOKEN", "TELEGRAM_TOKEN"} ->
            "PRACTICUM_TOKEN, TELEGRAM_TOKEN"
      [] m = {"PRACTICUM_TOKEN", "TELEGRAM_CHAT_ID"} ->
            "PRACTICUM_TOKEN, TELEGRAM_CHAT_ID"
      [] m = {"TELEGRAM_TOKEN", "TELEGRAM_CHAT_ID"} ->
            "TELEGRAM_TOKEN, TELEGRAM_CHAT_ID"
      [] m = {"PRACTICUM_TOKEN", "TELEGRAM_TOKEN", "TELEGRAM_CHAT_ID"} ->
            "PRACTICUM_TOKEN, TELEGRAM_TOKEN, TELEGRAM_CHAT_ID"

\* C8: with a credential missing, main ends in check_tokens' error, whose
\* text lists exactly the missing credentials, before the bot exists and
\* before any poll or send; with all three present the loop is entered.
C8_MissingCredentialsAreFatal ==
    /\ (MissingCredentials # {} /\ pc # "start") =>
          /\ pc = "exited"
          /\ exitError = C8_ExpectedText(MissingCredentials)
          /\ ~botCreated
          /\ net = NoNet /\ fromDate = 0
          /\ log = <<>> /\ lastFailureDelivered = ""
          /\ ~ENABLED Next
    /\ (MissingCredentials = {} /\ pc # "start") =>
          /\ pc \in {"poll", "check_response", "records", "update",
                     "except", "sleep"}
          /\ botCreated
          /\ exitError = ""

C8_Witness ==
    /\ pc = "exited"
    /\ MissingCredentials = {"TELEGRAM_TOKEN", "TELEGRAM_CHAT_ID"}

\* C9: a 200 hands the parsed body to main; 400..499 is the client error,
\* 500..599 the server error, any other code the unexpected-status error,
\* and the iteration reports exactly one failure message, naming the class.
C9_StatusClasses ==
    net.kind = "http" =>
       IF net.code = 200
       THEN /\ response = net.body
            /\ error.msg \notin {"Oshibka na storone klienta.",
                                 "Oshibka servera.", "Neizvestnyy otvet."}
       ELSE LET class == IF net.code \in 400..499
                         THEN "Oshibka na storone klienta."
                         ELSE IF net.code \in 500..599
                              THEN "Oshibka servera."
                              ELSE "Neizvestnyy otvet."
            IN  /\ pc \in {"except", "sleep"}
                /\ error = Exc("ValueError", class)
                /\ pc = "except" => log = <<>>
                /\ pc = "sleep" =>
                      /\ Len(log) = 1
                      /\ log[1].kind = "failure"
                      /\ log[1].text = "Sboy v rabote programmy: " \o class
                      /\ log[1].attempted

C9_Witness ==
    /\ pc = "sleep"
    /\ net.kind = "http"
    /\ net.code = 503
    /\ log = <<[kind |-> "failure",
                text |-> "Sboy v rabote programmy: Oshibka servera.",
                attempted |-> TRUE, delivered |-> TRUE]>>

\* the sentence promised for each of the three statuses
C10_Sentence(status) ==
    CASE status = "approved" ->
            "Rabota proverena: revyueru vsyo ponravilos. Ura!"
      [] status = "reviewing" -> "Rabota vzyata na proverku revyuerom."
      [] status = "rejected" ->
            "Rabota proverena: u revyuera est zamechaniya."

\* C10: parse_status returns the fixed sentence of the status around the
\* name as given when the name is there and the status is one of the three
\* keys; raises the missing-field error when the name is absent, whatever
\* the status; raises the unknown-status error when the name is there and
\* the status is absent or not one of the three keys.
C10_ParseStatus ==
    fn.called =>
       LET name == fn.arg.homework_name
           status == fn.arg.status
       IN  IF name = Absent
           THEN fn.out = Raised(Exc("KeyError",
                    "V otvete API otsutstvuet klyuch \"homework_name\"."), "")
           ELSE IF status \in {"approved", "reviewing", "rejected"}
                THEN fn.out = Returned(
                        "Izmenilsya status proverki raboty \"" \o name
                        \o "\". " \o C10_Sentence(status))
                ELSE /\ fn.out.raised
                     /\ fn.out.exc.type = "ValueError"
                     /\ fn.out.exc.msg =
                           "Neizvestnyy status domashney raboty: "
                           \o (IF status = Absent THEN "None" ELSE status)

C10_Witness ==
    /\ fn.called
    /\ fn.arg = Record(Absent, "unknown")
    /\ fn.out.raised
    /\ fn.out.exc.type = "KeyError"

\* this iteration's GET got a body of the documented shape
ValidShape ==
    net.kind = "http" /\ net.code = 200 /\ ~BadShape(net.body)

\* the positions of the records of the body that parse_status rejects
BadPositions ==
    {i \in 1..Len(net.body.hw) : parse_status(net.body.hw[i]).raised}

\* the first k entries of the log are the status-change messages of the
\* first k records, in list order, each handed to bot.send_message
StatusSendsUpTo(k) ==
    /\ Len(log) >= k
    /\ \A i \in 1..k :
         /\ log[i].kind = "status"
         /\ log[i].text = parse_status(net.body.hw[i]).value
         /\ log[i].attempted

\* C11: when all n records of a validated list translate, the iteration
\* never enters the except branch and reaches its sleep with exactly n
\* status-change sends, one per record, in list order, each handed to
\* bot.send_message even when its text repeats an earlier one; for n = 0
\* nothing is sent and no failure is reported.
C11_OneSendPerRecord ==
    (ValidShape /\ BadPositions = {}) =>
       /\ pc \in {"check_response", "records", "update", "sleep"}
       /\ error = NoExc
       /\ pc = "records" => StatusSendsUpTo(idx - 1) /\ Len(log) = idx - 1
       /\ pc \in {"update", "sleep"} =>
             StatusSendsUpTo(Len(net.body.hw)) /\ Len(log) = Len(net.body.hw)

C11_Witness ==
    /\ pc = "sleep"
    /\ ValidShape
    /\ Len(log) = 2
    /\ log[1].text = log[2].text
    /\ log[1].delivered /\ log[2].attempted

\* C12: when translation fails for the record at position k, the records
\* before k have been sent in order, no record after k is translated or
\* sent, and exactly one failure message, that of the translation error, is
\* passed to send_message before the sleep.
C12_TranslationFailureAborts ==
    (ValidShape /\ BadPositions # {}) =>
       LET k == CHOOSE i \in BadPositions : \A j \in BadPositions : i <= j IN
       /\ pc \in {"check_response", "records", "except", "sleep"}
       /\ pc = "records" => idx <= k /\ Len(log) = idx - 1
       /\ pc \in {"except", "sleep"} =>
             /\ idx = k
             /\ error = parse_status(net.body.hw[k]).exc
             /\ StatusSendsUpTo(k - 1)
       /\ pc = "except" => Len(log) = k - 1
       /\ pc = "sleep" =>
             /\ Len(log) = k
             /\ log[k].kind = "failure"
             /\ log[k].text = "Sboy v rabote programmy: "
                              \o ExcStr(parse_status(net.body.hw[k]).exc)
             /\ log[k].attempted

C12_Witness ==
    /\ pc = "sleep"
    /\ ValidShape
    /\ BadPositions = {1}
    /\ Len(net.body.hw) = 2
    /\ Len(log) = 1
    /\ log[1].kind = "failure"

\* a step in which bot.send_message raised
DeliveryFailedStep ==
    /\ Len(log') = Len(log) + 1
    /\ log'[Len(log')].attempted
    /\ ~log'[Len(log')].delivered

\* C13: a delivery that fails inside send_message changes nothing else: the
\* for loop moves to the next record (or to the cursor update) as after a
\* successful send, the except branch still goes to its sleep, the caught
\* error is never that of a delivery, and an iteration with a failed
\* delivery and no other error still sends once per record, reports no
\* failure and advances the cursor.
C13_DeliveryFailureOnlyLogged ==
    /\ [][DeliveryFailedStep =>
            /\ error' = error
            /\ timestamp' = timestamp
            /\ pc = "records" =>
                  /\ idx' = idx + 1
                  /\ pc' = IF idx < Len(homeworks) THEN "records" ELSE "update"
                  /\ log'[Len(log')].kind = "status"
            /\ pc = "except" => pc' = "sleep"
            /\ pc \in {"records", "except"}]_vars
    /\ []((\E i \in 1..Len(log) : ~log[i].delivered) =>
            /\ pc # "exited"
            /\ Cardinality({i \in 1..Len(log) : log[i].kind = "failure"}) <= 1
            /\ (pc = "sleep" /\ error = NoExc) =>
                  /\ Len(log) = Len(homeworks)
                  /\ \A i \in 1..Len(log) : log[i].kind = "status"
                  /\ timestamp = IF "current_date" \in response.keys
                                 THEN response.date ELSE fromDate)

C13_Witness ==
    /\ pc = "sleep"
    /\ error = NoExc
    /\ Len(log) = 2
    /\ ~log[1].delivered
    /\ log[2].delivered
    /\ timestamp = response.date
    /\ timestamp # fromDate

\* C17: the cursor is assigned in two places only: at startup, to the
\* constant TIME_POINT, and at the end of an iteration whose body was
\* validated and whose records were all translated, to that body's
\* current_date; so it always is TIME_POINT or a current_date of an earlier
\* such response.
C17_CursorSources ==
    /\ [](pc \notin {"start", "exited"} => timestamp \in {TIME_POINT} \cup Dates)
    /\ [][timestamp' # timestamp =>
            \/ pc = "start" /\ timestamp' = TIME_POINT
            \/ /\ pc = "update"
               /\ ValidShape
               /\ BadPositions = {}
               /\ response = net.body
               /\ Len(log) = Len(response.hw)
               /\ "current_date" \in response.keys
               /\ timestamp' = response.date]_vars

C17_Witness ==
    /\ pc = "sleep"
    /\ fromDate # TIME_POINT
    /\ timestamp # TIME_POINT
    /\ timestamp # fromDate
    /\ ValidShape

\* C14: the from_date of the first GET after startup is the wall clock at
\* the start of the process.
C14_Original ==
    [][(PollStep /\ fromDate = 0) => fromDate' = startTime]_vars

\* C14, amended: the from_date of the first GET after startup is the
\* constant TIME_POINT, whenever the process starts.
C14_FirstCursorIsTimePoint ==
    [][(PollStep /\ fromDate = 0) => fromDate' = TIME_POINT]_vars

C14_Witness ==
    /\ pc \in {"check_response", "except", "sleep"}
    /\ prevFailure = NoFailure
    /\ lastFailureDelivered = ""
    /\ fromDate = TIME_POINT
    /\ startTime = LaterStart + RETRY_PERIOD

\* C15: every pass of the loop issues exactly one GET and then sleeps
\* exactly once, for RETRY_PERIOD seconds: no GET follows another without a
\* sleep between them, and no second sleep comes before the next GET.
C15_OneGetOneSleep ==
    /\ gets \in {0, 1}
    /\ slept \in {0, RETRY_PERIOD}
    /\ pc \in {"check_response", "records", "update", "except", "sleep"} =>
          gets = 1 /\ slept = 0
    /\ pc = "poll" =>
          gets = 0 /\ slept = IF fromDate = 0 THEN 0 ELSE RETRY_PERIOD

C15_Witness ==
    /\ pc = "poll"
    /\ slept = RETRY_PERIOD
    /\ gets = 0
    /\ prevFailure.text # ""

\* C16: against a server that answers with exactly the changes since
\* from_date and always with current_date, no status change reaches the
\* chat in two different iterations.
C16_Original ==
    pc = "sleep" => DeliveredNow \cap deliveredBefore = {}

\* C16, amended: against such a server, a status change that reached the
\* chat in an iteration that completed (nothing raised, the cursor moved to
\* current_date) reaches it in no later iteration; the changes sent in an
\* iteration that then failed are sent again, the cursor having stayed.
C16_NoRepeatAfterCompletedIteration ==
    pc = "sleep" => DeliveredNow \cap deliveredOk = {}

C16_Witness ==
    /\ pc = "sleep"
    /\ error = NoExc
    /\ DeliveredNow # {}
    /\ deliveredOk # {}

====
